---- MODULE Spec2Model ----
(***************************************************************************)
(* Ticket System - WebSocket server (websocket-server.js).                 *)
(*                                                                         *)
(* The model covers the connection registry (activeUsers), the admin set   *)
(* (adminSockets), socket.io room membership, and the event handlers that  *)
(* route events to rooms, admins and ticket owners.  The async handlers    *)
(* (send_message, status_updated) are split at every await, so that other  *)
(* events interleave exactly where the event loop lets them.               *)
(***************************************************************************)
EXTENDS Integers, Sequences, FiniteSets, TLC

\* ------------------------------------------------------------------------
\* Bounds
\* ------------------------------------------------------------------------
NConn == 2          \* sockets that ever connect
MaxReceived == 4    \* client events ever received by the server
MaxEvents == 1      \* of these, async events (send_message, status_updated)
MaxPipelined == 2   \* send_message events of the pipelining specification

Conns == 1..NConn

\* ------------------------------------------------------------------------
\* JavaScript values supplied by clients
\* ------------------------------------------------------------------------
\* An id is a number or the decimal string of a number; a field that was
\* never set is undefined; ticketId starts as null.
Num(n) == [form |-> "num", n |-> n]
Str(n) == [form |-> "str", n |-> n]
Undefined == [form |-> "undefined", n |-> 0]
Null == [form |-> "null", n |-> 0]

\* Rows of the tickets table: ticket 1 is owned by account 1; no other
\* ticket exists.  mysql2 returns INT columns as JavaScript numbers.
TicketNumbers == {1, 2}
AccountNumbers == {1, 2}
tickets == {[id |-> 1, account_id |-> Num(1)]}

TicketIdVals == {Num(n) : n \in TicketNumbers} \cup {Str(1)}
\* Handlers that use ticketId only in `ticket_${ticketId}` and as a query
\* parameter behave alike for both forms; they draw numeric ids.
NumericTicketIds == {Num(n) : n \in TicketNumbers}
UserIdVals == {Num(n) : n \in AccountNumbers} \cup {Str(1)}

\* Number(x) === Number(y): NaN (from undefined) equals nothing.
NumberEq(a, b) ==
  /\ a.form \in {"num", "str"}
  /\ b.form \in {"num", "str"}
  /\ a.n = b.n

\* x === y: same type and same value.
StrictEq(a, b) == a = b

\* `ticket_${ticketId}`: the template renders 7 and "7" as the same text,
\* so the room is identified by the number the id denotes.
roomName(ticketId) == ticketId.n

\* if (user.ticketId): null is falsy, the ids used here are truthy.
Truthy(v) == v.form \in {"num", "str"}

\* SELECT ... FROM tickets WHERE id = ?  (MySQL compares numerically)
SelectTicket(ticketId) == {t \in tickets : t.id = ticketId.n}

VARIABLES
  socket,          \* socket[c]: "new" (not yet connected), "live", "gone"
  activeUsers,     \* Map socketId => { userId, isAdmin, ticketId }
  adminSockets,    \* Set of socketId
  rooms,           \* rooms[c]: the rooms socket c has joined (adapter state)
  handlers,        \* async events in receipt order, each with its position
  ticket_messages, \* rows inserted so far, in insertion order
  received,        \* number of client events received so far
  emitted,         \* deliveries made by the last step
  lastEvent        \* the handler step that was just taken

vars == <<socket, activeUsers, adminSockets, rooms, handlers,
          ticket_messages, received, emitted, lastEvent>>

\* ------------------------------------------------------------------------
\* Dispatch primitives
\* ------------------------------------------------------------------------
\* The payload fields the properties read; NoData for the other events.
NoData == [id |-> 0, username |-> "", created_at |-> 0]

DeliverData(ev, targets, via, data) ==
  {[ev |-> ev, to |-> d, via |-> via, data |-> data] : d \in targets}

Deliver(ev, targets, via) == DeliverData(ev, targets, via, NoData)

\* Variant: a disconnected socket stays in the room named by its id.
IoToSocket_stale(socketId) == {socketId}

\* io.to(socketId): every socket is alone in the room named by its id,
\* for as long as it is connected.
IoToSocket(socketId) == IF socket[socketId] = "live" THEN {socketId} ELSE {}

\* io.to(roomName): the sockets currently in the room.
IoToRoom(room) == {d \in Conns : room \in rooms[d]}

\* socket.to(roomName): the room without the emitting socket.
SocketToRoom(c, room) == IoToRoom(room) \ {c}

\* socket.emit: reaches the socket only while it is connected.
SocketEmit(c, ev) == Deliver(ev, IoToSocket(c), "socket")

notifyAdmins(event) ==
  UNION {Deliver(event, IoToSocket(socketId), "socket") : socketId \in adminSockets}

Event(op, c, h, ticketId, res) ==
  [op |-> op, conn |-> c, h |-> h, ticketId |-> ticketId, res |-> res]

\* ------------------------------------------------------------------------
\* Initial state: server constructed, nobody connected
\* ------------------------------------------------------------------------
Init ==
  /\ socket = [c \in Conns |-> "new"]
  /\ activeUsers = << >>
  /\ adminSockets = {}
  /\ rooms = [c \in Conns |-> {}]
  /\ handlers = << >>
  /\ ticket_messages = << >>
  /\ received = 0
  /\ emitted = {}
  /\ lastEvent = Event("init", 0, 0, Null, "none")

\* ------------------------------------------------------------------------
\* Synchronous handlers
\* ------------------------------------------------------------------------
\* A client event arrives on a connected socket.
Receive(c) ==
  /\ socket[c] = "live"
  /\ received < MaxReceived
  /\ received' = received + 1

Put(map, k, v) == [x \in DOMAIN map \cup {k} |-> IF x = k THEN v ELSE map[x]]
Delete(map, k) == [x \in DOMAIN map \ {k} |-> map[x]]

connection(c) ==
  /\ socket[c] = "new"
  /\ socket' = [socket EXCEPT ![c] = "live"]
  /\ emitted' = {}
  /\ lastEvent' = Event("connection", c, 0, Null, "none")
  /\ UNCHANGED <<activeUsers, adminSockets, rooms, handlers, ticket_messages, received>>

join_system(c, userId, isAdmin) ==
  /\ Receive(c)
  /\ activeUsers' = Put(activeUsers, c,
       [userId |-> userId,
        isAdmin |-> IF isAdmin THEN "true" ELSE "false",
        ticketId |-> Null])
  /\ adminSockets' = IF isAdmin THEN adminSockets \cup {c} ELSE adminSockets
  /\ emitted' = SocketEmit(c, "system_joined")
  /\ lastEvent' = Event("join_system", c, 0, Null, "none")
  /\ UNCHANGED <<socket, rooms, handlers, ticket_messages>>

\* activeUsers.get(socket.id) || {}
GetOrEmpty(c) ==
  IF c \in DOMAIN activeUsers
  THEN activeUsers[c]
  ELSE [userId |-> Undefined, isAdmin |-> "undefined", ticketId |-> Undefined]  \* {}

join_ticket(c, ticketId) ==
  /\ Receive(c)
  /\ rooms' = [rooms EXCEPT ![c] = @ \cup {roomName(ticketId)}]
  /\ activeUsers' = Put(activeUsers, c, [GetOrEmpty(c) EXCEPT !.ticketId = ticketId])
  /\ emitted' = Deliver("user_joined", SocketToRoom(c, roomName(ticketId)), "room")
  /\ lastEvent' = Event("join_ticket", c, 0, ticketId, "none")
  /\ UNCHANGED <<socket, adminSockets, handlers, ticket_messages>>

leave_ticket(c, ticketId) ==
  /\ Receive(c)
  /\ rooms' = [rooms EXCEPT ![c] = @ \ {roomName(ticketId)}]
  /\ emitted' = Deliver("user_left", SocketToRoom(c, roomName(ticketId)), "room")
  /\ lastEvent' = Event("leave_ticket", c, 0, ticketId, "none")
  /\ UNCHANGED <<socket, activeUsers, adminSockets, handlers, ticket_messages>>

ticket_created(c) ==
  /\ Receive(c)
  /\ emitted' = notifyAdmins("new_ticket")
  /\ lastEvent' = Event("ticket_created", c, 0, Null, "none")
  /\ UNCHANGED <<socket, activeUsers, adminSockets, rooms, handlers, ticket_messages>>

\* The registry part of the disconnect handler.
disconnectAdminSockets(c) ==
  IF c \in DOMAIN activeUsers /\ activeUsers[c].isAdmin = "true"
  THEN adminSockets \ {c}
  ELSE adminSockets

\* Variant: the handler without activeUsers.delete(socket.id).
disconnectActiveUsers_keep(c) == activeUsers

disconnectActiveUsers(c) ==
  IF c \in DOMAIN activeUsers THEN Delete(activeUsers, c) ELSE activeUsers

disconnectEmits(c) ==
  IF c \in DOMAIN activeUsers /\ Truthy(activeUsers[c].ticketId)
  THEN Deliver("user_left", SocketToRoom(c, roomName(activeUsers[c].ticketId)), "room")
  ELSE {}

\* The transport has already taken the socket out of its rooms when the
\* 'disconnect' event fires.  The handler may be run again by a duplicate
\* disconnect signal for a socket that is already gone.
disconnect(c) ==
  /\ socket[c] \in {"live", "gone"}
  /\ socket' = [socket EXCEPT ![c] = "gone"]
  /\ rooms' = [rooms EXCEPT ![c] = {}]
  /\ emitted' = disconnectEmits(c)
  /\ adminSockets' = disconnectAdminSockets(c)
  /\ activeUsers' = disconnectActiveUsers(c)
  /\ lastEvent' = Event("disconnect", c, 0, Null,
                        IF socket[c] = "gone" THEN "repeat" ELSE "first")
  /\ UNCHANGED <<handlers, ticket_messages, received>>

SyncNext ==
  \/ \E c \in Conns : connection(c)
  \/ \E c \in Conns, userId \in UserIdVals, isAdmin \in BOOLEAN :
       join_system(c, userId, isAdmin)
  \/ \E c \in Conns, ticketId \in TicketIdVals : join_ticket(c, ticketId)
  \/ \E c \in Conns, ticketId \in NumericTicketIds : leave_ticket(c, ticketId)
  \/ \E c \in Conns : ticket_created(c)
  \/ \E c \in Conns : disconnect(c)

\* ------------------------------------------------------------------------
\* Async handlers.  A handler runs synchronously up to its first await
\* (pool.getConnection()); a later step resumes it when the awaited storage
\* call settles.  Outcomes of storage calls are chosen by the environment.
\* ------------------------------------------------------------------------
Handler(kind, c, ticketId, sender) ==
  [kind |-> kind, conn |-> c, ticketId |-> ticketId, sender |-> sender,
   pc |-> "getConnection",
   inserts |-> 0,      \* INSERT statements issued
   messageId |-> 0,    \* result.insertId
   roomAtInsert |-> {},\* members of the ticket's room when the INSERT settled
   errors |-> 0,       \* message_error emits made
   acquired |-> 0,     \* pool connections this handler checked out
   released |-> 0,     \* connection.release() calls this handler made
   response |-> 0,     \* HTTP status sent (REST handlers)
   notified |-> 0,     \* 'notified' of the HTTP response
   delivered |-> {}]   \* events of this handler that reached some socket

Awaiting(h, kind, pc) ==
  /\ h \in DOMAIN handlers
  /\ handlers[h].kind = kind
  /\ handlers[h].pc = pc

Delivered(es) == {e.ev : e \in es}

\* Resume handler h from the records hs: move it to pc, having made the
\* deliveries es.
ResumeFrom(hs, h, pc, es) ==
  /\ handlers' = [hs EXCEPT ![h].pc = pc,
                            ![h].delivered = @ \cup Delivered(es)]
  /\ emitted' = es

Resume(h, pc, es) == ResumeFrom(handlers, h, pc, es)

\* const connection = await pool.getConnection() resolved.
Acquire(hs, h) == [hs EXCEPT ![h].acquired = @ + 1]

\* Variant: a handler without the finally block.
Finally_forgotten(hs, h) == hs

\* finally { connection.release(); }
Finally(hs, h) == [hs EXCEPT ![h].released = @ + 1]

\* Variant: the error is reported to the ticket room.
messageErrorEmits_room(h) ==
  Deliver("message_error", IoToRoom(roomName(handlers[h].ticketId)), "room")

\* socket.emit('message_error', ...) of the catch block.
messageErrorEmits(h) == SocketEmit(handlers[h].conn, "message_error")

\* catch (error) of send_message, entered with the handler records hs:
\* one message_error, and the handler ends.
CatchFrom(hs, h) ==
  /\ handlers' = [hs EXCEPT ![h].pc = "failed",
                            ![h].errors = @ + 1,
                            ![h].delivered = @ \cup Delivered(messageErrorEmits(h))]
  /\ emitted' = messageErrorEmits(h)

Catch(h) == CatchFrom(handlers, h)

send_message(c, ticketId, sender) ==
  /\ Receive(c)
  /\ handlers' = Append(handlers, Handler("send_message", c, ticketId, sender))
  /\ emitted' = {}
  /\ lastEvent' = Event("send_message", c, Len(handlers) + 1, Null, "none")
  /\ UNCHANGED <<socket, activeUsers, adminSockets, rooms, ticket_messages>>

\* await pool.getConnection()
send_getConnection(h, ok) ==
  /\ Awaiting(h, "send_message", "getConnection")
  /\ IF ok THEN ResumeFrom(Acquire(handlers, h), h, "insert", {}) ELSE Catch(h)
  /\ lastEvent' = Event("send_message.getConnection", handlers[h].conn, h, Null,
                        IF ok THEN "ok" ELSE "error")
  /\ UNCHANGED <<socket, activeUsers, adminSockets, rooms, ticket_messages, received>>

\* The row an INSERT adds: the server assigns id (AUTO_INCREMENT) and
\* created_at (the time of the insert, which grows with the insertion order).
NewRow(h) ==
  [id |-> Len(ticket_messages) + 1,
   h |-> h,
   ticket_id |-> handlers[h].ticketId.n,
   sender |-> handlers[h].sender,
   created_at |-> Len(ticket_messages) + 1]

\* The two user names of a message: account.login, joined to the stored row,
\* and the username field of the client's event.
AccountLogin == "a.login"
ClientUsername == "data.username"

\* SELECT tm.*, a.login as username ... WHERE tm.id = ?
SelectMessage(messageId) ==
  {[id |-> ticket_messages[i].id,
    username |-> AccountLogin,
    created_at |-> ticket_messages[i].created_at] :
     i \in {j \in DOMAIN ticket_messages : ticket_messages[j].id = messageId}}

\* const message = messages[0]
Message(h) == CHOOSE m \in SelectMessage(handlers[h].messageId) : TRUE

\* await connection.execute('INSERT INTO ticket_messages ...')
send_insert(h, ok) ==
  /\ Awaiting(h, "send_message", "insert")
  /\ IF ok
     THEN /\ ticket_messages' = Append(ticket_messages, NewRow(h))
          /\ handlers' = [handlers EXCEPT
                ![h].pc = "select",
                ![h].inserts = @ + 1,
                ![h].messageId = NewRow(h).id,
                ![h].roomAtInsert = IoToRoom(roomName(handlers[h].ticketId))]
          /\ emitted' = {}
     ELSE /\ UNCHANGED ticket_messages
          /\ CatchFrom(Finally([handlers EXCEPT ![h].inserts = @ + 1], h), h)
  /\ lastEvent' = Event("send_message.insert", handlers[h].conn, h, Null,
                        IF ok THEN "ok" ELSE "error")
  /\ UNCHANGED <<socket, activeUsers, adminSockets, rooms, received>>

\* Variant: socket.to(roomName) in place of io.to(roomName).
newMessageEmits_socketTo(h) ==
  Deliver("new_message",
          SocketToRoom(handlers[h].conn, roomName(handlers[h].ticketId)), "room")

\* Variant: io.emit, a broadcast to every connected socket.
newMessageEmits_all(h) ==
  Deliver("new_message", {d \in Conns : socket[d] = "live"}, "room")

\* Variant: the payload built from the client's event.
newMessageEmits_clientData(h) ==
  DeliverData("new_message", IoToRoom(roomName(handlers[h].ticketId)), "room",
              [id |-> handlers[h].messageId,
               username |-> ClientUsername,
               created_at |-> Message(h).created_at])

\* io.to(roomName).emit('new_message', ...)
newMessageEmits(h) ==
  DeliverData("new_message", IoToRoom(roomName(handlers[h].ticketId)), "room",
              [id |-> Message(h).id,
               username |-> Message(h).username,
               created_at |-> Message(h).created_at])

\* The payload of new_user_message and new_admin_message.
NotificationData(h) ==
  [id |-> handlers[h].messageId,
   username |-> ClientUsername,
   created_at |-> Message(h).created_at]

notifyAdminsData(event, data) ==
  UNION {DeliverData(event, IoToSocket(socketId), "socket", data) :
           socketId \in adminSockets}

\* if (sender === 'user') notifyAdmins('new_user_message', ...)
newUserMessageEmits(h) ==
  IF handlers[h].sender = "user"
  THEN notifyAdminsData("new_user_message", NotificationData(h))
  ELSE {}

\* await connection.execute('SELECT tm.*, a.login ... WHERE tm.id = ?'), then
\* the room broadcast and the admin notification.  res is "row" (the row
\* came back), "empty" (no row: messages[0] is undefined and message.id
\* throws) or "error" (the query failed).
send_select(h, res) ==
  /\ Awaiting(h, "send_message", "select")
  /\ IF res = "row"
     THEN IF handlers[h].sender = "admin"
          THEN Resume(h, "owner", newMessageEmits(h) \cup newUserMessageEmits(h))
          ELSE ResumeFrom(Finally(handlers, h), h, "done",
                          newMessageEmits(h) \cup newUserMessageEmits(h))
     ELSE CatchFrom(Finally(handlers, h), h)
  /\ lastEvent' = Event("send_message.select", handlers[h].conn, h, Null, res)
  /\ UNCHANGED <<socket, activeUsers, adminSockets, rooms, ticket_messages, received>>

\* Variant: the owner lookup without the !user.isAdmin filter.
ownerSocketsNumber_anyRole(ownerId) ==
  {socketId \in DOMAIN activeUsers : NumberEq(activeUsers[socketId].userId, ownerId)}

\* Owner lookup of the admin branch of send_message.
ownerSocketsNumber(ownerId) ==
  {socketId \in DOMAIN activeUsers :
     /\ NumberEq(activeUsers[socketId].userId, ownerId)
     /\ activeUsers[socketId].isAdmin # "true"}

newAdminMessageEmits(h, ticketData) ==
  UNION {UNION {DeliverData("new_admin_message", IoToSocket(socketId), "socket",
                            NotificationData(h)) :
                  socketId \in ownerSocketsNumber(ticket.account_id)} :
           ticket \in ticketData}

\* await connection.execute('SELECT account_id ... FROM tickets WHERE id = ?')
send_owner(h, ok) ==
  /\ Awaiting(h, "send_message", "owner")
  /\ IF ok
     THEN ResumeFrom(Finally(handlers, h), h, "done",
                     newAdminMessageEmits(h, SelectTicket(handlers[h].ticketId)))
     ELSE CatchFrom(Finally(handlers, h), h)
  /\ lastEvent' = Event("send_message.owner", handlers[h].conn, h, Null,
                        IF ok THEN "ok" ELSE "error")
  /\ UNCHANGED <<socket, activeUsers, adminSockets, rooms, ticket_messages, received>>

status_updated(c, ticketId) ==
  /\ Receive(c)
  /\ handlers' = Append(handlers, Handler("status_updated", c, ticketId, "none"))
  /\ emitted' = {}
  /\ lastEvent' = Event("status_updated", c, Len(handlers) + 1, Null, "none")
  /\ UNCHANGED <<socket, activeUsers, adminSockets, rooms, ticket_messages>>

\* await pool.getConnection(); a failure is only logged.
status_getConnection(h, ok) ==
  /\ Awaiting(h, "status_updated", "getConnection")
  /\ IF ok
     THEN ResumeFrom(Acquire(handlers, h), h, "select", {})
     ELSE Resume(h, "failed", {})
  /\ lastEvent' = Event("status_updated.getConnection", handlers[h].conn, h, Null,
                        IF ok THEN "ok" ELSE "error")
  /\ UNCHANGED <<socket, activeUsers, adminSockets, rooms, ticket_messages, received>>

\* Owner lookup of status_updated: strict comparisons on both fields.
ownerSocketsStrict(ticket, ticketId) ==
  {socketId \in DOMAIN activeUsers :
     /\ StrictEq(activeUsers[socketId].userId, ticket.account_id)
     /\ ~StrictEq(activeUsers[socketId].ticketId, ticketId)}

\* Variant: the room broadcast made before the ticket is looked up.
statusChangedEmits_unchecked(tks, ticketId) ==
  Deliver("ticket_status_changed", IoToRoom(roomName(ticketId)), "room")

\* if (tickets.length > 0) { io.to(roomName).emit(...); ownerSockets.forEach(...) }
statusChangedEmits(tks, ticketId) ==
  UNION {Deliver("ticket_status_changed", IoToRoom(roomName(ticketId)), "room")
           \cup UNION {Deliver("ticket_status_changed", IoToSocket(socketId), "socket") :
                         socketId \in ownerSocketsStrict(ticket, ticketId)} :
         ticket \in tks}

\* await connection.execute('SELECT t.*, a.login ... WHERE t.id = ?'), then
\* the dispatch.  A failure is only logged.
status_select(h, ok) ==
  /\ Awaiting(h, "status_updated", "select")
  /\ IF ok
     THEN ResumeFrom(Finally(handlers, h), h, "done",
                     statusChangedEmits(SelectTicket(handlers[h].ticketId),
                                        handlers[h].ticketId))
     ELSE ResumeFrom(Finally(handlers, h), h, "failed", {})
  /\ lastEvent' = Event("status_updated.select", handlers[h].conn, h, Null,
                        IF ok THEN "ok" ELSE "error")
  /\ UNCHANGED <<socket, activeUsers, adminSockets, rooms, ticket_messages, received>>

\* ------------------------------------------------------------------------
\* REST endpoints.  A request is not tied to a socket (conn 0); the HTTP
\* response is recorded in the handler.
\* ------------------------------------------------------------------------
Respond(hs, h, status, n) == [hs EXCEPT ![h].response = status, ![h].notified = n]

\* if (!ticketId || !newStatus)
MissingFields(ticketId, newStatus) == ~Truthy(ticketId) \/ ~newStatus

\* POST /api/broadcast-status-update, up to the first await; newStatus tells
\* whether the body carries a non-empty newStatus.
rest_status(ticketId, newStatus) ==
  /\ received < MaxReceived
  /\ received' = received + 1
  /\ LET h == Len(handlers) + 1
         hs == Append(handlers, Handler("rest_status", 0, ticketId, "none"))
     IN  /\ handlers' = IF MissingFields(ticketId, newStatus)
                        THEN Respond([hs EXCEPT ![h].pc = "done"], h, 400, 0)
                        ELSE hs
         /\ lastEvent' = Event("rest_status", 0, h, Null,
                               IF MissingFields(ticketId, newStatus)
                               THEN "400" ELSE "none")
  /\ emitted' = {}
  /\ UNCHANGED <<socket, activeUsers, adminSockets, rooms, ticket_messages>>

\* await pool.getConnection(); the outer catch answers 500.
rest_status_getConnection(h, ok) ==
  /\ Awaiting(h, "rest_status", "getConnection")
  /\ IF ok
     THEN ResumeFrom(Acquire(handlers, h), h, "select", {})
     ELSE ResumeFrom(Respond(handlers, h, 500, 0), h, "failed", {})
  /\ lastEvent' = Event("rest_status.getConnection", 0, h, Null,
                        IF ok THEN "ok" ELSE "error")
  /\ UNCHANGED <<socket, activeUsers, adminSockets, rooms, ticket_messages, received>>

\* Variant: the lookup without the role filter.
ownerSocketsRest_anyRole(ticket) ==
  {socketId \in DOMAIN activeUsers :
     NumberEq(activeUsers[socketId].userId, ticket.account_id)}

\* Owner lookup of the REST endpoint.
ownerSocketsRest(ticket) ==
  {socketId \in DOMAIN activeUsers :
     /\ NumberEq(activeUsers[socketId].userId, ticket.account_id)
     /\ activeUsers[socketId].isAdmin # "true"}

restStatusEmits(tks) ==
  UNION {UNION {Deliver("ticket_status_changed", IoToSocket(socketId), "socket") :
                  socketId \in ownerSocketsRest(ticket)} :
           ticket \in tks}

\* notified: ownerSockets.length
Notified(tks) ==
  IF tks = {} THEN 0
  ELSE Cardinality(ownerSocketsRest(CHOOSE ticket \in tks : TRUE))

\* await connection.execute('SELECT t.*, a.login ... WHERE t.id = ?'), then
\* 404, or the dispatch and 200; a failed query is answered 500.
rest_status_select(h, ok) ==
  /\ Awaiting(h, "rest_status", "select")
  /\ LET tks == SelectTicket(handlers[h].ticketId)
     IN  IF ~ok
         THEN ResumeFrom(Respond(Finally(handlers, h), h, 500, 0), h, "failed", {})
         ELSE IF tks = {}
         THEN ResumeFrom(Respond(Finally(handlers, h), h, 404, 0), h, "done", {})
         ELSE ResumeFrom(Respond(Finally(handlers, h), h, 200, Notified(tks)),
                         h, "done", restStatusEmits(tks))
  /\ lastEvent' = Event("rest_status.select", 0, h, Null,
                        IF ok THEN "ok" ELSE "error")
  /\ UNCHANGED <<socket, activeUsers, adminSockets, rooms, ticket_messages, received>>

\* GET /api/messages/:ticketId, up to the first await.
rest_messages(ticketId) ==
  /\ received < MaxReceived
  /\ received' = received + 1
  /\ handlers' = Append(handlers, Handler("rest_messages", 0, ticketId, "none"))
  /\ emitted' = {}
  /\ lastEvent' = Event("rest_messages", 0, Len(handlers) + 1, Null, "none")
  /\ UNCHANGED <<socket, activeUsers, adminSockets, rooms, ticket_messages>>

rest_messages_getConnection(h, ok) ==
  /\ Awaiting(h, "rest_messages", "getConnection")
  /\ IF ok
     THEN ResumeFrom(Acquire(handlers, h), h, "select", {})
     ELSE ResumeFrom(Respond(handlers, h, 500, 0), h, "failed", {})
  /\ lastEvent' = Event("rest_messages.getConnection", 0, h, Null,
                        IF ok THEN "ok" ELSE "error")
  /\ UNCHANGED <<socket, activeUsers, adminSockets, rooms, ticket_messages, received>>

\* await connection.execute('SELECT tm.*, a.login ... WHERE tm.ticket_id = ?')
rest_messages_select(h, ok) ==
  /\ Awaiting(h, "rest_messages", "select")
  /\ IF ok
     THEN ResumeFrom(Respond(Finally(handlers, h), h, 200, 0), h, "done", {})
     ELSE ResumeFrom(Respond(Finally(handlers, h), h, 500, 0), h, "failed", {})
  /\ lastEvent' = Event("rest_messages.select", 0, h, Null,
                        IF ok THEN "ok" ELSE "error")
  /\ UNCHANGED <<socket, activeUsers, adminSockets, rooms, ticket_messages, received>>

\* ticketId of a JSON body: a number, a string, or absent.
BodyTicketIds == TicketIdVals \cup {Undefined}
\* :ticketId of a path is a string.
PathTicketIds == {Str(n) : n \in TicketNumbers}

Senders == {"user", "admin"}
SelectResults == {"row", "empty", "error"}

StartAsync ==
  \/ \E c \in Conns, ticketId \in NumericTicketIds, sender \in Senders :
       send_message(c, ticketId, sender)
  \/ \E c \in Conns, ticketId \in TicketIdVals : status_updated(c, ticketId)

SendSteps ==
  \/ \E h \in DOMAIN handlers, ok \in BOOLEAN : send_getConnection(h, ok)
  \/ \E h \in DOMAIN handlers, ok \in BOOLEAN : send_insert(h, ok)
  \/ \E h \in DOMAIN handlers, res \in SelectResults : send_select(h, res)
  \/ \E h \in DOMAIN handlers, ok \in BOOLEAN : send_owner(h, ok)

StatusSteps ==
  \/ \E h \in DOMAIN handlers, ok \in BOOLEAN : status_getConnection(h, ok)
  \/ \E h \in DOMAIN handlers, ok \in BOOLEAN : status_select(h, ok)

Next ==
  \/ SyncNext
  \/ Len(handlers) < MaxEvents /\ StartAsync
  \/ SendSteps
  \/ StatusSteps

Spec == Init /\ [][Next]_vars

RestStatusSteps ==
  \/ \E h \in DOMAIN handlers, ok \in BOOLEAN : rest_status_getConnection(h, ok)
  \/ \E h \in DOMAIN handlers, ok \in BOOLEAN : rest_status_select(h, ok)

RestMessagesSteps ==
  \/ \E h \in DOMAIN handlers, ok \in BOOLEAN : rest_messages_getConnection(h, ok)
  \/ \E h \in DOMAIN handlers, ok \in BOOLEAN : rest_messages_select(h, ok)

\* The status pipeline: the socket handlers, with one status update coming
\* either as a status_updated event or as a REST request.
StartStatus ==
  \/ \E c \in Conns, ticketId \in TicketIdVals : status_updated(c, ticketId)
  \/ \E ticketId \in BodyTicketIds, newStatus \in BOOLEAN :
       rest_status(ticketId, newStatus)

NextStatus ==
  \/ SyncNext
  \/ Len(handlers) < MaxEvents /\ StartStatus
  \/ StatusSteps
  \/ RestStatusSteps

SpecStatus == Init /\ [][NextStatus]_vars

\* The storage pool: handlers of all four kinds in flight at once.
StartPooled ==
  \/ \E c \in Conns, ticketId \in NumericTicketIds, sender \in Senders :
       send_message(c, ticketId, sender)
  \/ \E c \in Conns, ticketId \in NumericTicketIds : status_updated(c, ticketId)
  \/ \E ticketId \in BodyTicketIds, newStatus \in BOOLEAN :
       rest_status(ticketId, newStatus)
  \/ \E ticketId \in PathTicketIds : rest_messages(ticketId)

NextPool ==
  \/ \E c \in Conns : connection(c)
  \/ Len(handlers) < MaxPipelined /\ StartPooled
  \/ SendSteps
  \/ StatusSteps
  \/ RestStatusSteps
  \/ RestMessagesSteps

SpecPool == Init /\ [][NextPool]_vars

\* Several send_message events in flight at once, on sockets that join
\* rooms meanwhile.
NextPipelined ==
  \/ \E c \in Conns : connection(c)
  \/ \E c \in Conns, ticketId \in NumericTicketIds : join_ticket(c, ticketId)
  \/ /\ Len(handlers) < MaxPipelined
     /\ \E c \in Conns, ticketId \in NumericTicketIds, sender \in Senders :
          send_message(c, ticketId, sender)
  \/ SendSteps

SpecPipelined == Init /\ [][NextPipelined]_vars

\* ------------------------------------------------------------------------
\* Properties
\* ------------------------------------------------------------------------
Registered(c) == c \in DOMAIN activeUsers
RoleAdmin(c) == Registered(c) /\ activeUsers[c].isAdmin = "true"
RoleEndUser(c) == Registered(c) /\ activeUsers[c].isAdmin = "false"

\* The sockets the last step delivered event ev to.
Recipients(ev) == {e.to : e \in {x \in emitted : x.ev = ev}}

\* How many times the last step delivered event ev to socket c.
Deliveries(ev, c) == Cardinality({e \in emitted : e.ev = ev /\ e.to = c})

LastHandler == handlers[lastEvent.h]

\* The last step was the room broadcast of a send_message.
BroadcastStep == lastEvent.op = "send_message.select" /\ lastEvent.res = "row"

\* The last step was an admin notification: ticket_created, or the
\* broadcast step of a send_message with sender 'user'.
AdminNotifyStep ==
  \/ lastEvent.op = "ticket_created"
  \/ BroadcastStep /\ LastHandler.sender = "user"

\* The last step was the dispatch of a status_updated on an existing ticket.
StatusDispatchStep ==
  /\ lastEvent.op = "status_updated.select"
  /\ lastEvent.res = "ok"
  /\ SelectTicket(LastHandler.ticketId) # {}

\* The last step was the owner notification of an admin message on an
\* existing ticket.
OwnerNotifyStep ==
  /\ lastEvent.op = "send_message.owner"
  /\ lastEvent.res = "ok"
  /\ SelectTicket(LastHandler.ticketId) # {}

OwnerOf(ticketId) == (CHOOSE t \in SelectTicket(ticketId) : TRUE).account_id

Persisted(h) == \E i \in DOMAIN ticket_messages : ticket_messages[i].h = h

\* C1: a socket is in adminSockets if and only if it has an activeUsers
\* entry whose role is Admin.
C1_AdminSetIffAdminRole ==
  \A c \in Conns : c \in adminSockets <=> RoleAdmin(c)

\* C2: a new_ticket / new_user_message notification reaches every socket
\* registered as Admin and no socket registered as EndUser.
C2_AdminBroadcastExact ==
  AdminNotifyStep =>
    \A c \in Conns :
      /\ RoleAdmin(c) =>
           c \in Recipients("new_ticket") \cup Recipients("new_user_message")
      /\ RoleEndUser(c) =>
           c \notin Recipients("new_ticket") \cup Recipients("new_user_message")

\* C3: one status_updated delivers ticket_status_changed to no socket more
\* than once.
C3_StatusAtMostOnce ==
  lastEvent.op = "status_updated.select" =>
    \A c \in Conns : Deliveries("ticket_status_changed", c) <= 1

\* C4: one status_updated on an existing ticket delivers exactly one
\* ticket_status_changed to every registered socket of the owner account
\* that is not a member of the ticket's room.
C4_OwnerOutsideRoomNotified ==
  StatusDispatchStep =>
    \A c \in DOMAIN activeUsers :
      (/\ NumberEq(activeUsers[c].userId, OwnerOf(LastHandler.ticketId))
       /\ roomName(LastHandler.ticketId) \notin rooms[c])
        => Deliveries("ticket_status_changed", c) = 1

\* C5 as stated: the connected sender of a persisted message receives the
\* new_message broadcast whether or not it joined the ticket's room.
C5_SenderAlwaysEchoed ==
  (BroadcastStep /\ socket[LastHandler.conn] = "live")
    => LastHandler.conn \in Recipients("new_message")

\* C5 amended: the sender receives the new_message broadcast exactly when
\* it is a member of the ticket's room at dispatch time.
C5_SenderEchoedIffInRoom ==
  BroadcastStep =>
    (LastHandler.conn \in Recipients("new_message")
       <=> roomName(LastHandler.ticketId) \in rooms[LastHandler.conn])

C5_Witness ==
  /\ BroadcastStep
  /\ roomName(LastHandler.ticketId) \in rooms[LastHandler.conn]
  /\ LastHandler.conn \in Recipients("new_message")

\* C6: new_admin_message is delivered only by the owner notification of an
\* admin message, and there to exactly the sockets registered with the
\* owner's account id and role EndUser, whatever rooms they are in.
C6_OwnerNotifyExact ==
  /\ Recipients("new_admin_message") # {} => OwnerNotifyStep
  /\ OwnerNotifyStep =>
       Recipients("new_admin_message") =
         {c \in DOMAIN activeUsers :
            /\ NumberEq(activeUsers[c].userId, OwnerOf(LastHandler.ticketId))
            /\ RoleEndUser(c)}

C6_Witness ==
  /\ OwnerNotifyStep
  /\ Recipients("new_admin_message") # {}
  /\ \E c \in Conns :
       /\ RoleAdmin(c)
       /\ NumberEq(activeUsers[c].userId, OwnerOf(LastHandler.ticketId))
       /\ c \notin Recipients("new_admin_message")

\* C7: new_message is delivered only by the room broadcast of a
\* send_message, and never to a socket that is not a member of that
\* ticket's room (a member of another room only, or of none).
C7_RoomIsolation ==
  /\ Recipients("new_message") # {} => BroadcastStep
  /\ BroadcastStep =>
       \A c \in Conns :
         roomName(LastHandler.ticketId) \notin rooms[c]
           => c \notin Recipients("new_message")

C7_Witness ==
  /\ BroadcastStep
  /\ Recipients("new_message") # {}
  /\ \E c \in Conns :
       /\ rooms[c] # {}
       /\ roomName(LastHandler.ticketId) \notin rooms[c]
       /\ c \notin Recipients("new_message")

\* C8: a disconnect processed for a socket that is already gone emits
\* nothing and leaves activeUsers and adminSockets as they were.
C8_DisconnectIdempotent ==
  [][(lastEvent'.op = "disconnect" /\ lastEvent'.res = "repeat")
       => /\ activeUsers' = activeUsers
          /\ adminSockets' = adminSockets
          /\ emitted' = {}
          /\ lastEvent'.conn \notin DOMAIN activeUsers']_vars

C8_Witness ==
  /\ lastEvent.op = "disconnect"
  /\ lastEvent.res = "repeat"
  /\ lastEvent.conn \in adminSockets

\* C9: of two send_message events on one socket, the later one is never
\* persisted while the earlier one is still waiting to be persisted.
PendingPersist(h) == handlers[h].pc \in {"getConnection", "insert"}

C9_PersistInReceiptOrder ==
  \A h1, h2 \in DOMAIN handlers :
    (/\ h1 < h2
     /\ handlers[h1].kind = "send_message"
     /\ handlers[h2].kind = "send_message"
     /\ handlers[h1].conn = handlers[h2].conn
     /\ Persisted(h2))
      => ~PendingPersist(h1)

\* C10: a send_message whose insert failed has ended in failed after one
\* insert and one message_error, none of its events reached any socket
\* except message_error, and the failing step delivered to nobody but the
\* originating socket.
InsertFailed(h) ==
  /\ handlers[h].kind = "send_message"
  /\ handlers[h].inserts > 0
  /\ ~Persisted(h)

InsertFailStep == lastEvent.op = "send_message.insert" /\ lastEvent.res = "error"

C10_InsertFailureReportedToSenderOnly ==
  /\ \A h \in DOMAIN handlers :
       InsertFailed(h) =>
         /\ handlers[h].pc = "failed"
         /\ handlers[h].inserts = 1
         /\ handlers[h].errors = 1
         /\ handlers[h].delivered \subseteq {"message_error"}
  /\ InsertFailStep =>
       /\ \A e \in emitted : e.ev = "message_error" /\ e.to = lastEvent.conn
       /\ socket[lastEvent.conn] = "live" => Deliveries("message_error", lastEvent.conn) = 1

C10_Witness ==
  /\ InsertFailStep
  /\ Deliveries("message_error", lastEvent.conn) = 1
  /\ \E c \in Conns :
       c # lastEvent.conn /\ roomName(LastHandler.ticketId) \in rooms[c]

\* C11: message_error is emitted for a send_message only when its message
\* was not persisted; a persisted message never ends in failed, and no
\* send_message both reaches room members with new_message and reports
\* message_error.
C11_ErrorOnlyIfNotPersisted ==
  \A h \in DOMAIN handlers :
    handlers[h].kind = "send_message" =>
      /\ handlers[h].errors > 0 => ~Persisted(h)
      /\ Persisted(h) => handlers[h].pc # "failed"
      /\ ~("new_message" \in handlers[h].delivered /\ handlers[h].errors > 0)

\* C12: every new_message delivery is made by the broadcast step of a
\* handler whose message is in ticket_messages, and carries the id and
\* created_at of that stored row and the account login joined to it, not
\* the client's username.
C12_BroadcastCarriesStoredRow ==
  \A e \in emitted :
    e.ev = "new_message" =>
      /\ BroadcastStep
      /\ Persisted(lastEvent.h)
      /\ e.data.id \in DOMAIN ticket_messages
      /\ ticket_messages[e.data.id].h = lastEvent.h
      /\ e.data.id = ticket_messages[e.data.id].id
      /\ e.data.created_at = ticket_messages[e.data.id].created_at
      /\ e.data.username = AccountLogin
      /\ e.data.username # ClientUsername

\* A broadcast of a message that was inserted out of receipt order.
C12_Witness ==
  /\ BroadcastStep
  /\ \E e \in emitted : e.ev = "new_message" /\ e.data.id # lastEvent.h
\* The last step was the dispatch of a REST status update on an existing
\* ticket.
RestDispatchStep ==
  /\ lastEvent.op = "rest_status.select"
  /\ lastEvent.res = "ok"
  /\ SelectTicket(LastHandler.ticketId) # {}

\* The sockets registered with the account id of the ticket's owner and
\* role EndUser.
OwnerEndUsers(ticketId) ==
  {c \in Conns : /\ RoleEndUser(c)
                 /\ NumberEq(activeUsers[c].userId, OwnerOf(ticketId))}

\* C13: a POST /api/broadcast-status-update for an existing ticket delivers
\* ticket_status_changed to exactly the sockets registered with the owner's
\* account id and role EndUser, once each and nothing else, and answers 200
\* with notified equal to the number of those sockets.
C13_RestStatusToOwnerEndUsers ==
  RestDispatchStep =>
    /\ Recipients("ticket_status_changed") = OwnerEndUsers(LastHandler.ticketId)
    /\ \A e \in emitted : e.ev = "ticket_status_changed" /\ e.via = "socket"
    /\ \A c \in OwnerEndUsers(LastHandler.ticketId) :
         Deliveries("ticket_status_changed", c) = 1
    /\ LastHandler.response = 200
    /\ LastHandler.notified = Cardinality(OwnerEndUsers(LastHandler.ticketId))

C13_Witness ==
  /\ RestDispatchStep
  /\ LastHandler.notified = 1
  /\ \E c \in Conns :
       /\ RoleAdmin(c)
       /\ NumberEq(activeUsers[c].userId, OwnerOf(LastHandler.ticketId))
       /\ roomName(LastHandler.ticketId) \in rooms[c]
       /\ c \notin Recipients("ticket_status_changed")

\* The step that ended a status update in failure: a REST request answered
\* 400, 404 or 500, or a status_updated that found no ticket or lost its
\* storage access.
StatusFailedStep ==
  \/ lastEvent.op = "rest_status" /\ lastEvent.res = "400"
  \/ /\ lastEvent.op \in {"rest_status.select", "status_updated.select"}
     /\ \/ lastEvent.res = "error"
        \/ SelectTicket(LastHandler.ticketId) = {}
  \/ /\ lastEvent.op \in {"rest_status.getConnection", "status_updated.getConnection"}
     /\ lastEvent.res = "error"

\* C14: a status update that fails delivers nothing and leaves the registry,
\* the admin set and the rooms as they were; a REST request without
\* ticketId or newStatus is answered 400 and never acquires a storage
\* connection, and a REST request for an unknown ticket is answered 404.
C14_FailedStatusUpdateSilent ==
  [][/\ \A h \in DOMAIN handlers :
          handlers[h].response = 400 => handlers'[h] = handlers[h]
     /\ StatusFailedStep' =>
       /\ emitted' = {}
       /\ activeUsers' = activeUsers
       /\ adminSockets' = adminSockets
       /\ rooms' = rooms
       /\ (lastEvent'.op = "rest_status" =>
             /\ handlers'[lastEvent'.h].response = 400
             /\ handlers'[lastEvent'.h].acquired = 0
             /\ handlers'[lastEvent'.h].pc = "done")
       /\ (lastEvent'.op = "rest_status.select" /\ lastEvent'.res = "ok" =>
             handlers'[lastEvent'.h].response = 404)]_vars

C14_Witness ==
  /\ lastEvent.op = "status_updated.select"
  /\ lastEvent.res = "ok"
  /\ SelectTicket(LastHandler.ticketId) = {}
  /\ IoToRoom(roomName(LastHandler.ticketId)) # {}
  /\ LastHandler.pc = "done"

\* C15: each of the three owner lookups finds every registered EndUser
\* socket whose account id denotes the same number as the ticket owner's,
\* in numeric or in string form: at the owner notification of an admin
\* message and at the REST dispatch each such socket gets the event, and
\* at the dispatch of a status_updated each such socket outside the
\* ticket's room gets it.
C15_OwnerLookupNumeric ==
  /\ OwnerNotifyStep =>
       OwnerEndUsers(LastHandler.ticketId) \subseteq Recipients("new_admin_message")
  /\ RestDispatchStep =>
       OwnerEndUsers(LastHandler.ticketId) \subseteq Recipients("ticket_status_changed")
  /\ StatusDispatchStep =>
       \A c \in OwnerEndUsers(LastHandler.ticketId) :
         (/\ roomName(LastHandler.ticketId) \notin rooms[c]
          /\ ~NumberEq(activeUsers[c].ticketId, LastHandler.ticketId))
           => c \in Recipients("ticket_status_changed")

\* Some step of handler h can be taken.
HandlerStep(h) ==
  \/ \E ok \in BOOLEAN : send_getConnection(h, ok)
  \/ \E ok \in BOOLEAN : send_insert(h, ok)
  \/ \E res \in SelectResults : send_select(h, res)
  \/ \E ok \in BOOLEAN : send_owner(h, ok)
  \/ \E ok \in BOOLEAN : status_getConnection(h, ok)
  \/ \E ok \in BOOLEAN : status_select(h, ok)

Finished(h) == handlers[h].pc \in {"done", "failed"}

\* C16: a disconnect during a suspended send_message or status_updated
\* handler does not stop it and is not an error: an unfinished handler can
\* always take its next step, whatever sockets are gone; nothing is ever
\* delivered to a socket that is gone; the room broadcasts reach exactly
\* (new_message) or at least (ticket_status_changed) the sockets in the
\* room at that step; and a handler fails only in a step whose storage call
\* failed or found no row.
C16_DisconnectWhileSuspended ==
  /\ \A e \in emitted : socket[e.to] = "live"
  /\ \A h \in DOMAIN handlers :
       handlers[h].kind \in {"send_message", "status_updated"} /\ ~Finished(h)
         => ENABLED HandlerStep(h)
  /\ BroadcastStep =>
       Recipients("new_message") = IoToRoom(roomName(LastHandler.ticketId))
  /\ StatusDispatchStep =>
       IoToRoom(roomName(LastHandler.ticketId)) \subseteq Recipients("ticket_status_changed")
  /\ \A h \in DOMAIN handlers :
       (/\ handlers[h].kind \in {"send_message", "status_updated"}
        /\ lastEvent.h = h
        /\ handlers[h].pc = "failed")
         => lastEvent.res \in {"error", "empty"}

\* The sender is gone when its message is broadcast to the other member of
\* the room.
C16_Witness ==
  /\ BroadcastStep
  /\ socket[LastHandler.conn] = "gone"
  /\ Recipients("new_message") # {}
  /\ LastHandler.errors = 0
  /\ LastHandler.pc = "done"

\* The handlers that use the storage pool.
Pooled == {h \in DOMAIN handlers :
             handlers[h].kind \in {"send_message", "status_updated",
                                   "rest_status", "rest_messages"}}

\* Connections checked out of the pool and not released.
CheckedOut(h) == handlers[h].acquired - handlers[h].released

\* C17: each handler checks out at most one storage connection, holds it
\* while it is suspended on a query, and has released it exactly once
\* when it has finished, by whatever path: success, a failed query, the
\* 404 return (a handler that never got a connection releases nothing).
\* When every handler has finished, no connection is checked out.
C17_ConnectionReleasedOnce ==
  /\ \A h \in Pooled :
       /\ handlers[h].acquired \in {0, 1}
       /\ handlers[h].released \in {0, 1}
       /\ Finished(h) => handlers[h].released = handlers[h].acquired
       /\ ~Finished(h) =>
            /\ handlers[h].released = 0
            /\ handlers[h].acquired = IF handlers[h].pc = "getConnection" THEN 0 ELSE 1
  /\ (\A h \in Pooled : Finished(h)) =>
       \A h \in Pooled : CheckedOut(h) = 0

\* A REST request that ended on the 404 return next to a send_message that
\* failed after its insert, both having released their connection.
C17_Witness ==
  /\ \E h \in Pooled :
       /\ handlers[h].kind = "rest_status"
       /\ handlers[h].response = 404
       /\ handlers[h].released = 1
  /\ \E h \in Pooled :
       /\ handlers[h].kind = "send_message"
       /\ handlers[h].pc = "failed"
       /\ handlers[h].inserts = 1
       /\ handlers[h].released = 1

\* C18: the ticketId field of a registered socket is the ticket of its
\* last join_ticket: join_ticket sets it and keeps the rooms joined
\* earlier, and join_system and leave_ticket leave the field of a
\* registered socket as it was.
C18_CurrentRoomIsLastJoin ==
  [][/\ lastEvent'.op = "join_ticket" =>
          /\ activeUsers'[lastEvent'.conn].ticketId = lastEvent'.ticketId
          /\ rooms[lastEvent'.conn] \subseteq rooms'[lastEvent'.conn]
     /\ (lastEvent'.op \in {"join_system", "leave_ticket"}
            /\ Registered(lastEvent'.conn)) =>
          activeUsers'[lastEvent'.conn].ticketId
            = activeUsers[lastEvent'.conn].ticketId]_vars

\* C19: a socket whose disconnect has been processed is in neither
\* activeUsers nor adminSockets, and adminSockets holds only keys of
\* activeUsers.
C19_GoneSocketsUnregistered ==
  /\ \A c \in Conns :
       socket[c] = "gone" => c \notin DOMAIN activeUsers /\ c \notin adminSockets
  /\ adminSockets \subseteq DOMAIN activeUsers

\* C20: nothing that changes the ticket's room takes effect between the
\* insert of a message and its broadcast: new_message reaches exactly the
\* sockets that were in the room when the INSERT settled.
C20_BroadcastToRoomAtInsert ==
  BroadcastStep => Recipients("new_message") = LastHandler.roomAtInsert

\* The sockets other than c that share a room with c.
RoomMates(c) == {d \in Conns \ {c} : rooms[d] \cap rooms[c] # {}}

\* C21: the disconnect of a socket delivers user_left to the other members
\* of exactly the rooms the socket was in when it disconnected: not to a
\* room it had left before, and to every room it was still in.
C21_UserLeftToCurrentRooms ==
  [][lastEvent'.op = "disconnect" =>
       {e.to : e \in {x \in emitted' : x.ev = "user_left"}}
         = RoomMates(lastEvent'.conn)]_vars
====
